---- MODULE Spec2Model ----
(***************************************************************************)
(* Alert / news cross-reference of the CLG admin backend.                  *)
(*                                                                         *)
(* POST /admin/alerts creates an alert row and then, best effort, marks    *)
(* the news_cache row whose article_url equals the alert's source_url      *)
(* (BACKEND_NEWS_ALERT_TRACKING.md, lines 40-60).  GET /admin/news/cache   *)
(* lists the cache with the stored alert_created column (lines 109-136).   *)
(* Each request handler is an async function: it is modelled as a process  *)
(* whose steps are the completions of the database calls it awaits.        *)
(*                                                                         *)
(* Also modelled: the migration statement for existing data (lines         *)
(* 176-183), the origin function of the CORS middleware                    *)
(* (BACKEND_CORS_SETUP.md, lines 23-52) and the create-alert modal of the  *)
(* NewsFeed page (BACKEND_CORS_SETUP.md, lines 229-665).                   *)
(***************************************************************************)
EXTENDS Integers, Sequences, FiniteSets, TLC

\* ------------------------------------------------------------------ bounds
MaxReq == 2        \* POST /admin/alerts requests in one behaviour
MaxEdits == 1      \* PUT / DELETE requests on alerts in one behaviour

Req == 1..MaxReq

\* ------------------------------------------------------------- value sets
Undefined == "<undefined>"          \* a field absent from the JSON body
Empty == ""                         \* the empty string
UrlA == "https://example.com/a"
UrlB == "https://example.com/b"
Urls == {UrlA, UrlB}
SourceUrls == {Undefined, Empty, UrlA}   \* source_url of a POST body
PutUrls == {UrlB}                        \* source_url of a PUT body
NoParam == "<none>"                 \* a query parameter that is not given
TokenParams == {NoParam, "BTC"}     \* the `token` query parameter

\* Spellings of UrlA that a URL normaliser would identify with it: a trailing
\* slash, another letter case, a tracking parameter.
UrlASlash == "https://example.com/a/"
UrlAUpper == "https://EXAMPLE.com/a"
UrlAQuery == "https://example.com/a?utm_source=x"
NearUrls == {UrlA, UrlASlash, UrlAUpper, UrlAQuery}

\* Two more articles, for caches with several tickers and equal dates.
UrlC == "https://example.com/c"
UrlD == "https://example.com/d"
ListingUrls == {UrlA, UrlB, UrlC, UrlD}
ListingTokens == {NoParam, Empty, "BTC", "ETH"}   \* `token` of a listing request

\* What ingestion stored for each article (fields other than alert_created).
TickersOf(url) ==
    IF url = UrlA THEN {"BTC"}
    ELSE IF url = UrlC THEN {"BTC", "ETH"}
    ELSE {"ETH"}
DateOf(url) ==
    IF url \in {UrlA, UrlC} THEN 2
    ELSE IF url = UrlD THEN 1
    ELSE 0
Now == 2
\* The `days` query parameter: {} when it is not given, {d} when it is d.
DaysParams == {{}, {1}}

NewsRow(url, flag) ==
    [article_url |-> url, tickers |-> TickersOf(url), date |-> DateOf(url),
     alert_created |-> flag]

NoAlert == [id |-> 0, source_url |-> Undefined]
NoResponse == [status |-> 0, body |-> NoAlert]
HttpError == [status |-> 500, body |-> NoAlert]
Json(a) == [status |-> 200, body |-> a]

\* ------------------------------------------------------- CORS value sets
LocalDev == "http://localhost:5173"
LocalAlt == "http://localhost:3001"
ProdUrl == "https://admin.example.com"
StagingUrl == "https://staging.example.com"
OtherOrigin == "https://other.example.net"
Star == "*"
EnvValues == {Undefined, Empty, ProdUrl, StagingUrl, Star}   \* an environment variable
Origins == {Undefined, Empty, LocalDev, LocalAlt, ProdUrl, StagingUrl, OtherOrigin, Star}

NotCalled == [err |-> "<not called>", allow |-> FALSE]
Allowed == [err |-> "<null>", allow |-> TRUE]                 \* callback(null, true)
NotAllowed == [err |-> "Not allowed by CORS", allow |-> FALSE]  \* callback(new Error(..))

\* --------------------------------------------------- NewsFeed value sets
\* Articles as /api/news returns them: one with a ticker, one without.
FeedArticles ==
    {[news_url |-> UrlA, title |-> "headline a", tickers |-> <<"BTC">>],
     [news_url |-> UrlB, title |-> "headline b", tickers |-> <<>>]}
TokenInputs == {"", "eth", "ETH"}       \* what the user types in the token input
TitleInputs == {"edited"}               \* what the user types in a text input
Severities == {"info", "critical"}      \* options of the severity select
Null == [token |-> "<null>", title |-> "<null>", severity |-> "<null>",
         source_url |-> "<null>"]       \* newAlert === null
NoArticle == "<no article>"
Idle == [status |-> "idle", variables |-> Null]
NoPost == [body |-> Null, article |-> NoArticle]
NullSentiment == "<null>"               \* article.sentiment is null or absent
Sentiments == {NullSentiment, "", "Positive", "positive", "Neutral", "Negative",
               "Mixed"}                 \* article.sentiment as the API sends it
SentimentFilters == {"all", "positive", "neutral", "negative"}  \* options of the select
NewsArticles ==
    {[news_url |-> UrlA, title |-> <<"a", "b">>, text |-> <<"C">>,
      source_name |-> <<"b">>, sentiment |-> s] : s \in Sentiments}
NewsSearchTerms == {<<>>, <<"B">>, <<"a", "c">>}

\* ------------------------------------------------- Alerts page value sets
\* Strings that are searched are sequences of characters.
NoId == "<no id>"
NullAlert == [id |-> NoId, token |-> <<>>, title |-> <<>>, description |-> <<>>,
              severity |-> "<null>", source_url |-> "<null>"]  \* editingAlert === null
NoPut == [id |-> NoId, body |-> NullAlert]
NoDelete == [pressed |-> NoId, confirmed |-> FALSE, sent |-> NoId]
AlertOne == [id |-> "1", token |-> <<"A", "B">>, title |-> <<"C", "a">>,
             description |-> <<"b", "c">>, severity |-> "critical",
             source_url |-> UrlA]
AlertTwo == [id |-> "2", token |-> <<"B", "C">>, title |-> <<"a", "b">>,
             description |-> <<>>, severity |-> "info", source_url |-> Undefined]
AlertThree == [id |-> "3", token |-> <<"C">>, title |-> <<"A">>,
               description |-> <<"a", "B", "c">>, severity |-> "warning",
               source_url |-> Undefined]
AlertLists == {<<AlertOne, AlertTwo>>, <<AlertTwo>>}   \* what GET /api/alerts delivers
EditTitles == {<<"c">>}                 \* what the user types in the title input
EditTokens == {<<"a", "c">>}            \* what the user types in the token input
Confirm == BOOLEAN                      \* the answer to window.confirm
SearchTerms == {<<>>, <<"a">>, <<"A", "b">>, <<"b", "c">>, <<"c", "b">>, <<"C">>}
SeverityFilters == {"all", "info", "warning", "critical"}   \* options of the select

VARIABLES
    news_cache,     \* table news_cache: sequence of rows
    alerts,         \* table alerts: sequence of rows
    nextId,         \* serial of the alerts table
    pc,             \* per request: position of the POST handler
    source_url,     \* per request: req.body.source_url
    alert,          \* per request: the handler's local `alert`
    response,       \* per request: what the caller has received
    linkOutcome,    \* per request: "none", "ok" or "failed" (the UPDATE)
    newsQueries,    \* per request: statements issued against news_cache
    rowsWritten,    \* per request: rows of news_cache its UPDATE wrote
    rowsChanged,    \* per request: rows whose stored value its UPDATE changed
    errorLog,       \* console.error lines of the server
    deletedIds,     \* ids removed by DELETE /api/alerts/:id
    edits,          \* PUT / DELETE requests served so far
    lastListing,    \* body of the GET /admin/news/cache response being delivered
    listingCurrent, \* TRUE while that response is the server's latest step
    overlap,        \* history: pairs of requests that were in flight together
    cache0          \* history: news_cache before any request

\* The CORS middleware of server.js (BACKEND_CORS_SETUP.md, lines 23-52).
VARIABLES
    processEnv,     \* process.env: ADMIN_DASHBOARD_URL and STAGING_ADMIN_URL
    origin,         \* the Origin header of the request being checked
    callback,       \* what the origin function passed to its callback
    corsWarned      \* TRUE when that call wrote its console.warn line

\* The NewsFeed page of the dashboard (BACKEND_CORS_SETUP.md, lines 229-665).
VARIABLES
    newAlert,               \* useState: the draft of the modal, or null
    isCreateAlertModalOpen, \* useState
    mutation,               \* createAlertMutation: its status and variables
    openedFrom,             \* history: news_url of the article the draft came from
    posted,                 \* history: the last body sent by api.post, with openedFrom
    inFlight,               \* history: POSTs of the news feed awaiting their response
    alertsStale,            \* query cache: ['alerts'] is invalidated, not yet refetched
    newsData,               \* useQuery(['news']).data
    newsSearchTerm,         \* useState: searchTerm of NewsFeed
    sentimentFilter         \* useState

\* The Alerts page of the dashboard (src/pages/Dashboard.tsx, lines 166-587).
VARIABLES
    alertsData,             \* useQuery(['alerts']).data
    searchTerm,             \* useState
    severityFilter,         \* useState
    editingAlert,           \* useState: the draft of the edit modal, or null
    isEditModalOpen,        \* useState
    updateMutation,         \* updateAlertMutation: its status and variables
    deletesPending,         \* deleteAlertMutation: ids whose DELETE awaits its response
    editOpenedOn,           \* history: id of the alert whose edit button was pressed
    lastPut,                \* history: the last PUT sent, its URL id and body
    lastDelete              \* history: the last delete button pressed and what it sent

reqVars == <<pc, source_url, alert, response, linkOutcome, newsQueries, rowsWritten,
             rowsChanged>>
apiVars == <<news_cache, alerts, nextId, reqVars, errorLog, deletedIds, edits,
             lastListing, listingCurrent, overlap, cache0>>
corsVars == <<processEnv, origin, callback, corsWarned>>
modalVars == <<newAlert, isCreateAlertModalOpen, mutation, openedFrom, posted, inFlight>>
newsVars == <<newsData, newsSearchTerm, sentimentFilter>>
pageVars == <<alertsData, searchTerm, severityFilter, editingAlert, isEditModalOpen,
              updateMutation, deletesPending, editOpenedOn, lastPut, lastDelete>>
filterVars == <<searchTerm, severityFilter>>
offPage == <<modalVars, newsVars, apiVars, corsVars>>
clientVars == <<modalVars, alertsStale, newsVars, pageVars>>
vars == <<news_cache, alerts, nextId, pc, source_url, alert, response,
          linkOutcome, newsQueries, rowsWritten, rowsChanged, errorLog, deletedIds,
          edits, lastListing, listingCurrent, overlap, cache0, corsVars, clientVars>>

\* ---------------------------------------------------------------- helpers
\* Variant: `if (source_url !== undefined)`, which lets the empty string through.
Truthy_NotUndefined(s) == s # Undefined

\* JavaScript truthiness of a string-or-undefined value: `if (source_url)`.
Truthy(s) == s # Undefined /\ s # Empty

\* Variant: the WHERE clause compares normalised URLs (trailing slash, letter
\* case and query string dropped).
WhereArticleUrl_Normalised(nc, url) ==
    {i \in DOMAIN nc :
        (IF nc[i].article_url \in NearUrls THEN UrlA ELSE nc[i].article_url)
            = (IF url \in NearUrls THEN UrlA ELSE url)}

\* Variant: the UPDATE without its WHERE clause.
WhereArticleUrl_All(nc, url) == DOMAIN nc

\* Rows selected by `WHERE article_url = $1`: exact string equality.
WhereArticleUrl(nc, url) == {i \in DOMAIN nc : nc[i].article_url = url}

\* Variant: the UPDATE matches on a column that never equals the URL.
MarkProcessed_Skipped(nc, url) == nc

\* Variant: SET alert_created = (article_url = $1) with no WHERE clause.
MarkProcessed_ResetOthers(nc, url) ==
    [i \in DOMAIN nc |-> [nc[i] EXCEPT !.alert_created = (nc[i].article_url = url)]]

\* Variant: SET alert_created = NOT alert_created.
MarkProcessed_Toggle(nc, url) ==
    [i \in DOMAIN nc |->
        IF nc[i].article_url = url
        THEN [nc[i] EXCEPT !.alert_created = ~nc[i].alert_created]
        ELSE nc[i]]

\* UPDATE news_cache SET alert_created = TRUE WHERE article_url = $1
MarkProcessed(nc, url) ==
    [i \in DOMAIN nc |->
        IF i \in WhereArticleUrl(nc, url)
        THEN [nc[i] EXCEPT !.alert_created = TRUE]
        ELSE nc[i]]

\* article_url is the natural key of news_cache: no two rows share it.
ArticleUrlIsKey(nc) ==
    \A i, j \in DOMAIN nc : nc[i].article_url = nc[j].article_url => i = j

\* Outcomes of a rejected async handler: the framework answers with an HTTP
\* error (error middleware) or the rejection stays unhandled and no response
\* is ever written.
RejectionOutcomes == {HttpError, NoResponse}

\* createAlert: INSERT of one alert row, returning it.
createAlert(tbl, id, src) == Append(tbl, [id |-> id, source_url |-> src])

\* ------------------------------------------------------------------- Init
\* The server has started with ADMIN_DASHBOARD_URL = a and STAGING_ADMIN_URL = s.
InitEnv(a, s) ==
    /\ processEnv = [ADMIN_DASHBOARD_URL |-> a, STAGING_ADMIN_URL |-> s]
    /\ origin = Undefined
    /\ callback = NotCalled
    /\ corsWarned = FALSE

\* NewsFeed has mounted (lines 230-234): no draft, the modal is closed.
InitFeed ==
    /\ newAlert = Null
    /\ isCreateAlertModalOpen = FALSE
    /\ mutation = Idle
    /\ openedFrom = NoArticle
    /\ posted = NoPost
    /\ inFlight = 0
    /\ alertsStale = FALSE

\* The news query has delivered `list`; no search term, filter 'all' (230-231).
InitNews(list) ==
    /\ newsData = list
    /\ newsSearchTerm = <<>>
    /\ sentimentFilter = "all"

\* Alerts has mounted and its query has delivered `list` (Dashboard.tsx,
\* lines 167-181): no search term, filter 'all', the edit modal closed.
InitPage(list) ==
    /\ alertsData = list
    /\ searchTerm = <<>>
    /\ severityFilter = "all"
    /\ editingAlert = NullAlert
    /\ isEditModalOpen = FALSE
    /\ updateMutation = [status |-> "idle", variables |-> NullAlert]
    /\ deletesPending = {}
    /\ editOpenedOn = NoId
    /\ lastPut = NoPut
    /\ lastDelete = NoDelete

\* No request has been served yet; the cache holds the rows in `rows`.
InitApi(rows) ==
    /\ news_cache = rows
    /\ alerts = <<>>
    /\ nextId = 1
    /\ pc = [r \in Req |-> "idle"]
    /\ source_url = [r \in Req |-> Undefined]
    /\ alert = [r \in Req |-> NoAlert]
    /\ response = [r \in Req |-> NoResponse]
    /\ linkOutcome = [r \in Req |-> "none"]
    /\ newsQueries = [r \in Req |-> 0]
    /\ rowsWritten = [r \in Req |-> {}]
    /\ rowsChanged = [r \in Req |-> {}]
    /\ errorLog = 0
    /\ deletedIds = {}
    /\ edits = 0
    /\ lastListing = <<>>
    /\ listingCurrent = FALSE
    /\ overlap = {}
    /\ cache0 = rows

\* The whole system at start, with neither environment variable set.
InitWith(rows) ==
    InitEnv(Undefined, Undefined) /\ InitFeed /\ InitNews(<<>>) /\ InitPage(<<>>)
        /\ InitApi(rows)

\* Any cache of ingested articles, stored in any order, flagged or not.
Init ==
    \E rows \in UNION {[1..n -> {NewsRow(u, f) : u \in Urls, f \in BOOLEAN}]
                          : n \in 0..Cardinality(Urls)} :
        ArticleUrlIsKey(rows) /\ InitWith(rows)

\* A cache of two articles, the second of which is already flagged.
InitCrud == InitWith(<<NewsRow(UrlA, FALSE), NewsRow(UrlB, TRUE)>>)

\* ------------------------------------------------- POST /admin/alerts
\* Lines 40-44: the request arrives, the body is destructured and
\* createAlert is called; the handler awaits it.
PostAlerts(r, src) ==
    /\ pc[r] = "idle"
    /\ pc' = [pc EXCEPT ![r] = "createAlert"]
    /\ source_url' = [source_url EXCEPT ![r] = src]
    /\ overlap' = overlap \cup {{q, r} : q \in {q \in Req : pc[q] \notin {"idle", "done"}}}
    /\ listingCurrent' = FALSE /\ lastListing' = <<>>
    /\ UNCHANGED <<corsVars, clientVars>>
    /\ UNCHANGED <<news_cache, alerts, nextId, alert, response, linkOutcome,
                   newsQueries, rowsWritten, rowsChanged, errorLog, deletedIds, edits,
                   cache0>>

\* Variant: res.json(alert) is called before the UPDATE is issued.
CreateAlertResolves_AnswersFirst(r) ==
    /\ pc[r] = "createAlert"
    /\ alerts' = createAlert(alerts, nextId, source_url[r])
    /\ nextId' = nextId + 1
    /\ alert' = [alert EXCEPT ![r] = [id |-> nextId, source_url |-> source_url[r]]]
    /\ response' = [response EXCEPT ![r] = Json(alert'[r])]
    /\ IF Truthy(source_url[r])
       THEN /\ pc' = [pc EXCEPT ![r] = "dbQuery"]
            /\ newsQueries' = [newsQueries EXCEPT ![r] = @ + 1]
       ELSE /\ pc' = [pc EXCEPT ![r] = "done"]
            /\ UNCHANGED newsQueries
    /\ listingCurrent' = FALSE /\ lastListing' = <<>>
    /\ UNCHANGED <<corsVars, clientVars>>
    /\ UNCHANGED <<news_cache, source_url, linkOutcome, rowsWritten, rowsChanged, errorLog,
                   deletedIds, edits, overlap, cache0>>

\* Line 44 resolves: the alert row is persisted.  Line 47: with a truthy
\* source_url the UPDATE is issued and awaited, otherwise line 59 answers.
CreateAlertResolves(r) ==
    /\ pc[r] = "createAlert"
    /\ alerts' = createAlert(alerts, nextId, source_url[r])
    /\ nextId' = nextId + 1
    /\ alert' = [alert EXCEPT ![r] = [id |-> nextId, source_url |-> source_url[r]]]
    /\ IF Truthy(source_url[r])
       THEN /\ pc' = [pc EXCEPT ![r] = "dbQuery"]
            /\ newsQueries' = [newsQueries EXCEPT ![r] = @ + 1]
            /\ UNCHANGED response
       ELSE /\ pc' = [pc EXCEPT ![r] = "done"]
            /\ response' = [response EXCEPT ![r] = Json(alert'[r])]
            /\ UNCHANGED newsQueries
    /\ listingCurrent' = FALSE /\ lastListing' = <<>>
    /\ UNCHANGED <<corsVars, clientVars>>
    /\ UNCHANGED <<news_cache, source_url, linkOutcome, rowsWritten, rowsChanged, errorLog,
                   deletedIds, edits, overlap, cache0>>

\* Variant: the UPDATE is issued before createAlert is awaited, so it runs
\* even when the alert write fails.
CreateAlertRejects_LinksAnyway(r) ==
    /\ pc[r] = "createAlert"
    /\ \E out \in RejectionOutcomes :
          response' = [response EXCEPT ![r] = out]
    /\ pc' = [pc EXCEPT ![r] = "done"]
    /\ news_cache' = IF Truthy(source_url[r])
                     THEN MarkProcessed(news_cache, source_url[r])
                     ELSE news_cache
    /\ listingCurrent' = FALSE /\ lastListing' = <<>>
    /\ UNCHANGED <<corsVars, clientVars>>
    /\ UNCHANGED <<alerts, nextId, source_url, alert, linkOutcome,
                   newsQueries, rowsWritten, rowsChanged, errorLog, deletedIds, edits,
                   overlap, cache0>>

\* Line 44 rejects: nothing is persisted and the handler's promise rejects;
\* no statement of the handler catches it.
CreateAlertRejects(r) ==
    /\ pc[r] = "createAlert"
    /\ \E out \in RejectionOutcomes :
          response' = [response EXCEPT ![r] = out]
    /\ pc' = [pc EXCEPT ![r] = "done"]
    /\ listingCurrent' = FALSE /\ lastListing' = <<>>
    /\ UNCHANGED <<corsVars, clientVars>>
    /\ UNCHANGED <<news_cache, alerts, nextId, source_url, alert, linkOutcome,
                   newsQueries, rowsWritten, rowsChanged, errorLog, deletedIds, edits,
                   overlap, cache0>>

\* Lines 49-52 resolve: the UPDATE is applied; line 59 answers.
UpdateResolves(r) ==
    /\ pc[r] = "dbQuery"
    /\ news_cache' = MarkProcessed(news_cache, source_url[r])
    /\ rowsChanged' = [rowsChanged EXCEPT
                          ![r] = {i \in DOMAIN news_cache : news_cache'[i] # news_cache[i]}]
    /\ rowsWritten' = [rowsWritten EXCEPT
                          ![r] = WhereArticleUrl(news_cache, source_url[r])
                                 \cup rowsChanged'[r]]
    /\ linkOutcome' = [linkOutcome EXCEPT ![r] = "ok"]
    /\ response' = [response EXCEPT ![r] = Json(alert[r])]
    /\ pc' = [pc EXCEPT ![r] = "done"]
    /\ listingCurrent' = FALSE /\ lastListing' = <<>>
    /\ UNCHANGED <<corsVars, clientVars>>
    /\ UNCHANGED <<alerts, nextId, source_url, alert, newsQueries, errorLog,
                   deletedIds, edits, overlap, cache0>>

\* Variant: the catch block undoes the alert and answers with an error.
UpdateRejects_Rollback(r) ==
    /\ pc[r] = "dbQuery"
    /\ linkOutcome' = [linkOutcome EXCEPT ![r] = "failed"]
    /\ errorLog' = errorLog + 1
    /\ alerts' = SelectSeq(alerts, LAMBDA a : a.id # alert[r].id)
    /\ response' = [response EXCEPT ![r] = HttpError]
    /\ pc' = [pc EXCEPT ![r] = "done"]
    /\ listingCurrent' = FALSE /\ lastListing' = <<>>
    /\ UNCHANGED <<corsVars, clientVars>>
    /\ UNCHANGED <<news_cache, nextId, source_url, alert, newsQueries,
                   rowsWritten, rowsChanged, deletedIds, edits,
                   overlap, cache0>>

\* Variant: no try/catch around the UPDATE, so its rejection leaves the handler.
UpdateRejects_Rethrow(r) ==
    /\ pc[r] = "dbQuery"
    /\ linkOutcome' = [linkOutcome EXCEPT ![r] = "failed"]
    /\ \E out \in RejectionOutcomes :
          response' = [response EXCEPT ![r] = out]
    /\ pc' = [pc EXCEPT ![r] = "done"]
    /\ listingCurrent' = FALSE /\ lastListing' = <<>>
    /\ UNCHANGED <<corsVars, clientVars>>
    /\ UNCHANGED <<news_cache, alerts, nextId, source_url, alert, newsQueries,
                   rowsWritten, rowsChanged, errorLog, deletedIds, edits,
                   overlap, cache0>>

\* Variant: the catch block issues the UPDATE again instead of giving up.
UpdateRejects_Retry(r) ==
    /\ pc[r] = "dbQuery"
    /\ newsQueries[r] < 2
    /\ newsQueries' = [newsQueries EXCEPT ![r] = @ + 1]
    /\ errorLog' = errorLog + 1
    /\ listingCurrent' = FALSE /\ lastListing' = <<>>
    /\ UNCHANGED <<corsVars, clientVars>>
    /\ UNCHANGED <<news_cache, alerts, nextId, pc, source_url, alert, response,
                   linkOutcome, rowsWritten, rowsChanged, deletedIds, edits, overlap,
                   cache0>>

\* Lines 49-52 reject: lines 53-56 catch and log; line 59 answers.
UpdateRejects(r) ==
    /\ pc[r] = "dbQuery"
    /\ linkOutcome' = [linkOutcome EXCEPT ![r] = "failed"]
    /\ errorLog' = errorLog + 1
    /\ response' = [response EXCEPT ![r] = Json(alert[r])]
    /\ pc' = [pc EXCEPT ![r] = "done"]
    /\ listingCurrent' = FALSE /\ lastListing' = <<>>
    /\ UNCHANGED <<corsVars, clientVars>>
    /\ UNCHANGED <<news_cache, alerts, nextId, source_url, alert, newsQueries,
                   rowsWritten, rowsChanged, deletedIds, edits, overlap, cache0>>

\* ------------------------------------------------ GET /admin/news/cache
\* Variant: the `days` clause is left out of the query text.
Selected_NoWindow(nc, token, days) ==
    {i \in DOMAIN nc : token # NoParam /\ Truthy(token) => token \in nc[i].tickers}

\* WHERE 1=1 [AND $1 = ANY(tickers)] [AND date >= NOW() - INTERVAL 'days']
\* Each clause is added when its parameter is truthy (`token ?`, `days ?`):
\* a parameter that is absent or empty adds none.
Selected(nc, token, days) ==
    {i \in DOMAIN nc :
        /\ (token # NoParam /\ Truthy(token) => token \in nc[i].tickers)
        /\ \A d \in days : nc[i].date >= Now - d}

\* ORDER BY date DESC: every arrangement of the selected rows in which the
\* dates do not increase (rows of equal date come in any order).
OrderByDateDesc(nc, sel) ==
    {s \in [1..Cardinality(sel) -> sel] :
        /\ \A a, b \in DOMAIN s : s[a] = s[b] => a = b
        /\ \A a, b \in DOMAIN s : a < b => nc[s[a]].date >= nc[s[b]].date}

\* Variant: the SELECT list without alert_created; the client reads it as false.
GetNewsCache_NoFlag(token, days) ==
    /\ \E s \in OrderByDateDesc(news_cache, Selected(news_cache, token, days)) :
          lastListing' = [k \in DOMAIN s |->
                             [news_cache[s[k]] EXCEPT !.alert_created = FALSE]]
    /\ listingCurrent' = TRUE
    /\ UNCHANGED <<corsVars, clientVars>>
    /\ UNCHANGED <<news_cache, alerts, nextId, reqVars, errorLog, deletedIds, edits,
                   overlap, cache0>>

\* Variant: alert_created is computed by joining the alerts table
\* (EXISTS an alert whose source_url is the row's article_url).
GetNewsCache_Derived(token, days) ==
    /\ \E s \in OrderByDateDesc(news_cache, Selected(news_cache, token, days)) :
          lastListing' = [k \in DOMAIN s |->
                             [news_cache[s[k]] EXCEPT !.alert_created =
                                 \E a \in DOMAIN alerts :
                                     alerts[a].source_url = news_cache[s[k]].article_url]]
    /\ listingCurrent' = TRUE
    /\ UNCHANGED <<corsVars, clientVars>>
    /\ UNCHANGED <<news_cache, alerts, nextId, reqVars, errorLog, deletedIds, edits,
                   overlap, cache0>>

\* Lines 109-136: one SELECT, answered with its rows.  The body is held in
\* lastListing until the server handles its next request.
GetNewsCache(token, days) ==
    /\ \E s \in OrderByDateDesc(news_cache, Selected(news_cache, token, days)) :
          lastListing' = [k \in DOMAIN s |-> news_cache[s[k]]]
    /\ listingCurrent' = TRUE
    /\ UNCHANGED <<corsVars, clientVars>>
    /\ UNCHANGED <<news_cache, alerts, nextId, reqVars, errorLog, deletedIds, edits,
                   overlap, cache0>>

\* --------------------------------------- PUT / DELETE /api/alerts/:id
\* The backend's handlers are outside this repository; the dashboard calls
\* them (Dashboard.tsx, lines 188-206) as plain CRUD on the alerts table.
PutAlert(id, src) ==
    /\ edits < MaxEdits
    /\ \E k \in DOMAIN alerts : alerts[k].id = id
    /\ alerts' = [k \in DOMAIN alerts |->
                     IF alerts[k].id = id
                     THEN [alerts[k] EXCEPT !.source_url = src]
                     ELSE alerts[k]]
    /\ edits' = edits + 1
    /\ listingCurrent' = FALSE /\ lastListing' = <<>>
    /\ UNCHANGED <<corsVars, clientVars>>
    /\ UNCHANGED <<news_cache, nextId, reqVars, errorLog, deletedIds,
                   overlap, cache0>>

\* Variant: the DELETE handler also clears the flag of the news row the
\* deleted alert pointed at.
DeleteAlert_Unflags(id) ==
    /\ edits < MaxEdits
    /\ \E k \in DOMAIN alerts : alerts[k].id = id
    /\ alerts' = SelectSeq(alerts, LAMBDA a : a.id # id)
    /\ news_cache' = [i \in DOMAIN news_cache |->
                         IF \E k \in DOMAIN alerts :
                                /\ alerts[k].id = id
                                /\ alerts[k].source_url = news_cache[i].article_url
                         THEN [news_cache[i] EXCEPT !.alert_created = FALSE]
                         ELSE news_cache[i]]
    /\ deletedIds' = deletedIds \cup {id}
    /\ edits' = edits + 1
    /\ listingCurrent' = FALSE /\ lastListing' = <<>>
    /\ UNCHANGED <<corsVars, clientVars>>
    /\ UNCHANGED <<nextId, reqVars, errorLog, overlap, cache0>>

DeleteAlert(id) ==
    /\ edits < MaxEdits
    /\ \E k \in DOMAIN alerts : alerts[k].id = id
    /\ alerts' = SelectSeq(alerts, LAMBDA a : a.id # id)
    /\ deletedIds' = deletedIds \cup {id}
    /\ edits' = edits + 1
    /\ listingCurrent' = FALSE /\ lastListing' = <<>>
    /\ UNCHANGED <<corsVars, clientVars>>
    /\ UNCHANGED <<news_cache, nextId, reqVars, errorLog,
                   overlap, cache0>>

\* ------------------------------------------- migration of existing data
\* SELECT DISTINCT source_url FROM alerts WHERE source_url IS NOT NULL
\* (a source_url that was not given is stored as NULL).
AlertSourceUrls(tbl) == {tbl[k].source_url : k \in DOMAIN tbl} \ {Undefined}

\* Variant: SET alert_created = (article_url IN (...)) with no WHERE clause.
Migration_Recompute ==
    /\ news_cache' = [i \in DOMAIN news_cache |->
                         [news_cache[i] EXCEPT !.alert_created =
                             (news_cache[i].article_url \in AlertSourceUrls(alerts))]]
    /\ listingCurrent' = FALSE /\ lastListing' = <<>>
    /\ UNCHANGED <<alerts, nextId, reqVars, errorLog, deletedIds, edits, overlap,
                   cache0, corsVars, clientVars>>

\* Lines 176-183: UPDATE news_cache SET alert_created = TRUE
\* WHERE article_url IN (the source_urls of the alerts): one statement.
Migration ==
    /\ news_cache' = [i \in DOMAIN news_cache |->
                         IF news_cache[i].article_url \in AlertSourceUrls(alerts)
                         THEN [news_cache[i] EXCEPT !.alert_created = TRUE]
                         ELSE news_cache[i]]
    /\ listingCurrent' = FALSE /\ lastListing' = <<>>
    /\ UNCHANGED <<alerts, nextId, reqVars, errorLog, deletedIds, edits, overlap,
                   cache0, corsVars, clientVars>>

\* ------------------------------------------------------ CORS middleware
\* Lines 23-28: the array literal, then .filter(Boolean).
allowedOrigins(env) ==
    SelectSeq(<<LocalDev, LocalAlt, env.ADMIN_DASHBOARD_URL, env.STAGING_ADMIN_URL>>,
              Truthy)

\* Array.prototype.indexOf: the first index (from 0) of x, or -1.
indexOf(arr, x) ==
    IF \E k \in DOMAIN arr : arr[k] = x
    THEN (CHOOSE k \in DOMAIN arr :
             arr[k] = x /\ \A j \in DOMAIN arr : arr[j] = x => k <= j) - 1
    ELSE -1

\* Array.prototype.includes
includes(arr, x) == \E k \in DOMAIN arr : arr[k] = x

\* Variant: line 35 without `|| allowedOrigins.includes('*')`.
CorsOrigin_NoWildcard(o) ==
    /\ origin' = o
    /\ IF ~Truthy(o) \/ indexOf(allowedOrigins(processEnv), o) # -1
       THEN callback' = Allowed /\ corsWarned' = FALSE
       ELSE callback' = NotAllowed /\ corsWarned' = TRUE
    /\ UNCHANGED <<processEnv, apiVars, clientVars>>

\* Lines 31-41: the origin function of the cors options, called with the
\* request's Origin header.
CorsOrigin(o) ==
    /\ origin' = o
    /\ IF ~Truthy(o)
       THEN callback' = Allowed /\ corsWarned' = FALSE
       ELSE IF \/ indexOf(allowedOrigins(processEnv), o) # -1
               \/ includes(allowedOrigins(processEnv), Star)
            THEN callback' = Allowed /\ corsWarned' = FALSE
            ELSE callback' = NotAllowed /\ corsWarned' = TRUE
    /\ UNCHANGED <<processEnv, apiVars, clientVars>>

\* ------------------------------------------------------- NewsFeed page
\* article.tickers?.[0] || ''
FirstTicker(article) ==
    IF Len(article.tickers) > 0 THEN article.tickers[1] ELSE ""

\* String.prototype.toUpperCase on the token inputs.
toUpperCase(v) == IF v = "eth" THEN "ETH" ELSE v

\* Line 513: the modal is rendered.
ModalShown == isCreateAlertModalOpen /\ newAlert # Null

\* Lines 262-277: the "create alert" button of an article (line 483).
handleCreateAlertFromNews(article) ==
    /\ newAlert' = [token |-> FirstTicker(article), title |-> article.title,
                    severity |-> "info", source_url |-> article.news_url]
    /\ isCreateAlertModalOpen' = TRUE
    /\ openedFrom' = article.news_url
    /\ UNCHANGED <<mutation, posted, inFlight, alertsStale, newsVars, pageVars,
                   apiVars, corsVars>>

\* Variant: setNewAlert({ token: ... }) without spreading the draft.
SetToken_NoSpread(v) ==
    /\ ModalShown
    /\ newAlert' = [token |-> toUpperCase(v), title |-> Undefined,
                    severity |-> Undefined, source_url |-> Undefined]
    /\ UNCHANGED <<isCreateAlertModalOpen, mutation, openedFrom, posted, inFlight,
                   alertsStale, newsVars, pageVars, apiVars, corsVars>>

\* Line 539: onChange of the token input.
SetToken(v) ==
    /\ ModalShown
    /\ newAlert' = [newAlert EXCEPT !.token = toUpperCase(v)]
    /\ UNCHANGED <<isCreateAlertModalOpen, mutation, openedFrom, posted, inFlight,
                   alertsStale, newsVars, pageVars, apiVars, corsVars>>

\* Line 556: onChange of the title input (the description, deadline and
\* further_info inputs, lines 570, 604 and 618, have the same form).
SetTitle(v) ==
    /\ ModalShown
    /\ newAlert' = [newAlert EXCEPT !.title = v]
    /\ UNCHANGED <<isCreateAlertModalOpen, mutation, openedFrom, posted, inFlight,
                   alertsStale, newsVars, pageVars, apiVars, corsVars>>

\* Line 585: onChange of the severity select.
SetSeverity(v) ==
    /\ ModalShown
    /\ newAlert' = [newAlert EXCEPT !.severity = v]
    /\ UNCHANGED <<isCreateAlertModalOpen, mutation, openedFrom, posted, inFlight,
                   alertsStale, newsVars, pageVars, apiVars, corsVars>>

\* Lines 519-522 and 643-646: the X and Cancel buttons.
CloseModal ==
    /\ ModalShown
    /\ isCreateAlertModalOpen' = FALSE
    /\ newAlert' = Null
    /\ openedFrom' = NoArticle
    /\ UNCHANGED <<mutation, posted, inFlight, alertsStale, newsVars, pageVars,
                   apiVars, corsVars>>

\* Variant: the submit button is not disabled while the mutation is pending.
handleSaveAlert_WhilePending ==
    /\ ModalShown
    /\ inFlight < 2
    /\ Truthy(newAlert.token) /\ Truthy(newAlert.severity)
    /\ mutation' = [status |-> "pending", variables |-> newAlert]
    /\ posted' = [body |-> newAlert, article |-> openedFrom]
    /\ inFlight' = inFlight + 1
    /\ UNCHANGED <<newAlert, isCreateAlertModalOpen, openedFrom, alertsStale, newsVars,
                   pageVars, apiVars, corsVars>>

\* Variant: handleSaveAlert without its condition, behind a button that is
\* disabled only while the mutation is pending.
handleSaveAlert_NoTokenCheck ==
    /\ ModalShown
    /\ mutation.status # "pending"
    /\ mutation' = [status |-> "pending", variables |-> newAlert]
    /\ posted' = [body |-> newAlert, article |-> openedFrom]
    /\ inFlight' = inFlight + 1
    /\ UNCHANGED <<newAlert, isCreateAlertModalOpen, openedFrom, alertsStale, newsVars,
                   pageVars, apiVars, corsVars>>

\* Lines 279-284: the form of the modal is submitted.  A form whose submit
\* button is disabled is not submitted, and the button is disabled while the
\* mutation is pending (line 653).  Line 281 lets the draft through only with
\* a token and a severity; mutate(newAlert) posts it (lines 252-253).
handleSaveAlert ==
    /\ ModalShown
    /\ mutation.status # "pending"
    /\ IF Truthy(newAlert.token) /\ Truthy(newAlert.severity)
       THEN /\ mutation' = [status |-> "pending", variables |-> newAlert]
            /\ posted' = [body |-> newAlert, article |-> openedFrom]
            /\ inFlight' = inFlight + 1
       ELSE UNCHANGED <<mutation, posted, inFlight>>
    /\ UNCHANGED <<newAlert, isCreateAlertModalOpen, openedFrom, alertsStale, newsVars,
                   pageVars, apiVars, corsVars>>

\* Lines 255-259: onSuccess.
MutationSucceeds ==
    /\ mutation.status = "pending"
    /\ mutation' = [mutation EXCEPT !.status = "success"]
    /\ inFlight' = inFlight - 1
    /\ alertsStale' = TRUE
    /\ isCreateAlertModalOpen' = FALSE
    /\ newAlert' = Null
    /\ openedFrom' = NoArticle
    /\ UNCHANGED <<posted, newsVars, pageVars, apiVars, corsVars>>

\* Variant: an onError that closes the modal like onSuccess.
MutationFails_Closes ==
    /\ mutation.status = "pending"
    /\ mutation' = [mutation EXCEPT !.status = "error"]
    /\ inFlight' = inFlight - 1
    /\ isCreateAlertModalOpen' = FALSE
    /\ newAlert' = Null
    /\ openedFrom' = NoArticle
    /\ UNCHANGED <<posted, alertsStale, newsVars, pageVars, apiVars, corsVars>>

\* The POST fails: the mutation has no onError, the modal stays as it is.
MutationFails ==
    /\ mutation.status = "pending"
    /\ mutation' = [mutation EXCEPT !.status = "error"]
    /\ inFlight' = inFlight - 1
    /\ UNCHANGED <<newAlert, isCreateAlertModalOpen, openedFrom, posted, alertsStale,
                   newsVars, pageVars, apiVars, corsVars>>

\* The ['alerts'] query refetches after an invalidation and delivers `list`
\* (Dashboard.tsx, lines 173-181).
RefetchAlerts(list) ==
    /\ alertsStale
    /\ alertsData' = list
    /\ alertsStale' = FALSE
    /\ UNCHANGED <<modalVars, newsVars, searchTerm, severityFilter, editingAlert,
                   isEditModalOpen, updateMutation, deletesPending, editOpenedOn,
                   lastPut, lastDelete, apiVars, corsVars>>

\* --------------------------------------------------------- Alerts page
\* String.prototype.toLowerCase, character by character.
LowerChar(c) ==
    CASE c = "A" -> "a" [] c = "B" -> "b" [] c = "C" -> "c" [] OTHER -> c

toLowerCase(s) == [i \in DOMAIN s |-> LowerChar(s[i])]

\* String.prototype.toUpperCase on a sequence of characters.
UpperChar(c) ==
    CASE c = "a" -> "A" [] c = "b" -> "B" [] c = "c" -> "C" [] OTHER -> c

toUpperCaseChars(s) == [i \in DOMAIN s |-> UpperChar(s[i])]

\* String.prototype.includes: t occurs in s at some offset.
stringIncludes(s, t) ==
    \E i \in 0..(Len(s) - Len(t)) : SubSeq(s, i + 1, i + Len(t)) = t

\* Variant: the search term is compared as typed.
matchesSearch_CaseSensitive(a, term) ==
    \/ stringIncludes(toLowerCase(a.title), term)
    \/ stringIncludes(toLowerCase(a.token), term)
    \/ stringIncludes(toLowerCase(a.description), term)

\* Lines 221-224.
matchesSearch(a, term) ==
    \/ stringIncludes(toLowerCase(a.title), toLowerCase(term))
    \/ stringIncludes(toLowerCase(a.token), toLowerCase(term))
    \/ stringIncludes(toLowerCase(a.description), toLowerCase(term))

\* Line 226.
matchesSeverity(a, filter) == filter = "all" \/ a.severity = filter

\* Lines 220-229: alerts.filter(...) under the given search term and filter.
filterAlerts(list, term, filter) ==
    SelectSeq(list, LAMBDA a : matchesSearch(a, term) /\ matchesSeverity(a, filter))

\* The rows of the table (line 357).
filteredAlerts == filterAlerts(alertsData, searchTerm, severityFilter)

\* Line 282: onChange of the search input.
SetSearchTerm(v) ==
    /\ searchTerm' = v
    /\ UNCHANGED <<alertsData, severityFilter, editingAlert, isEditModalOpen,
                   updateMutation, deletesPending, editOpenedOn, lastPut, lastDelete,
                   alertsStale, offPage>>

\* Line 292: onChange of the severity select.
SetSeverityFilter(v) ==
    /\ severityFilter' = v
    /\ UNCHANGED <<alertsData, searchTerm, editingAlert, isEditModalOpen,
                   updateMutation, deletesPending, editOpenedOn, lastPut, lastDelete,
                   alertsStale, offPage>>

\* Line 416: the edit modal is rendered.
EditModalShown == isEditModalOpen /\ editingAlert # NullAlert

\* Variant: the handler opens the modal without storing the alert.
handleEditClick_FlagOnly(a) ==
    /\ isEditModalOpen' = TRUE
    /\ editOpenedOn' = a.id
    /\ UNCHANGED <<editingAlert, alertsData, filterVars, updateMutation, deletesPending,
                   lastPut, lastDelete, alertsStale, offPage>>

\* Lines 208-211: the edit button of a row (line 384).
handleEditClick(a) ==
    /\ editingAlert' = a
    /\ isEditModalOpen' = TRUE
    /\ editOpenedOn' = a.id
    /\ UNCHANGED <<alertsData, filterVars, updateMutation, deletesPending, lastPut,
                   lastDelete, alertsStale, offPage>>

\* Line 442: onChange of the token input.
SetEditToken(v) ==
    /\ EditModalShown
    /\ editingAlert' = [editingAlert EXCEPT !.token = toUpperCaseChars(v)]
    /\ UNCHANGED <<alertsData, filterVars, isEditModalOpen, updateMutation,
                   deletesPending, editOpenedOn, lastPut, lastDelete, alertsStale,
                   offPage>>

\* Line 457: onChange of the title input (the description, severity, deadline,
\* further_info and source_type inputs have the same form).
SetEditTitle(v) ==
    /\ EditModalShown
    /\ editingAlert' = [editingAlert EXCEPT !.title = v]
    /\ UNCHANGED <<alertsData, filterVars, isEditModalOpen, updateMutation,
                   deletesPending, editOpenedOn, lastPut, lastDelete, alertsStale,
                   offPage>>

\* Line 555: onChange of the source_url input.
SetEditSourceUrl(v) ==
    /\ EditModalShown
    /\ editingAlert' = [editingAlert EXCEPT !.source_url = v]
    /\ UNCHANGED <<alertsData, filterVars, isEditModalOpen, updateMutation,
                   deletesPending, editOpenedOn, lastPut, lastDelete, alertsStale,
                   offPage>>

\* Lines 421-425 and 563-572: the X and Cancel buttons of the edit modal.
CloseEditModal ==
    /\ EditModalShown
    /\ isEditModalOpen' = FALSE
    /\ editingAlert' = NullAlert
    /\ UNCHANGED <<alertsData, filterVars, updateMutation, deletesPending,
                   editOpenedOn, lastPut, lastDelete, alertsStale, offPage>>

\* Variant: the PUT goes to the row as it was fetched, not to the draft.
handleEditSubmit_Stale ==
    /\ EditModalShown
    /\ updateMutation.status # "pending"
    /\ \E k \in DOMAIN alertsData :
          /\ updateMutation' = [status |-> "pending", variables |-> alertsData[k]]
          /\ lastPut' = [id |-> alertsData[k].id, body |-> alertsData[k]]
    /\ UNCHANGED <<alertsData, filterVars, editingAlert, isEditModalOpen,
                   deletesPending, editOpenedOn, lastDelete, alertsStale, offPage>>

\* Lines 213-218: the form of the edit modal is submitted; its submit button
\* is disabled while the mutation is pending (line 575).  mutate(editingAlert)
\* sends PUT /api/alerts/<id> with the draft as its body (line 199).
handleEditSubmit ==
    /\ EditModalShown
    /\ updateMutation.status # "pending"
    /\ updateMutation' = [status |-> "pending", variables |-> editingAlert]
    /\ lastPut' = [id |-> editingAlert.id, body |-> editingAlert]
    /\ UNCHANGED <<alertsData, filterVars, editingAlert, isEditModalOpen,
                   deletesPending, editOpenedOn, lastDelete, alertsStale, offPage>>

\* Lines 201-205: onSuccess of updateAlertMutation.
UpdateSucceeds ==
    /\ updateMutation.status = "pending"
    /\ updateMutation' = [updateMutation EXCEPT !.status = "success"]
    /\ alertsStale' = TRUE
    /\ isEditModalOpen' = FALSE
    /\ editingAlert' = NullAlert
    /\ UNCHANGED <<alertsData, filterVars, deletesPending, editOpenedOn, lastPut,
                   lastDelete, offPage>>

\* The PUT fails: updateAlertMutation has no onError.
UpdateFails ==
    /\ updateMutation.status = "pending"
    /\ updateMutation' = [updateMutation EXCEPT !.status = "error"]
    /\ UNCHANGED <<alertsData, filterVars, editingAlert, isEditModalOpen,
                   deletesPending, editOpenedOn, lastPut, lastDelete, alertsStale,
                   offPage>>

\* Variant: the delete button without its confirm().
DeleteClick_NoConfirm(a, answer) ==
    /\ deletesPending' = deletesPending \cup {a.id}
    /\ lastDelete' = [pressed |-> a.id, confirmed |-> answer, sent |-> a.id]
    /\ UNCHANGED <<alertsData, filterVars, editingAlert, isEditModalOpen,
                   updateMutation, editOpenedOn, lastPut, alertsStale, offPage>>

\* Lines 389-395: the delete button of a row; `answer` is what the operator
\* answers to confirm().  mutate(alert.id) sends DELETE /api/alerts/<id>
\* (line 190).
DeleteClick(a, answer) ==
    /\ IF answer
       THEN /\ deletesPending' = deletesPending \cup {a.id}
            /\ lastDelete' = [pressed |-> a.id, confirmed |-> TRUE, sent |-> a.id]
       ELSE /\ deletesPending' = deletesPending
            /\ lastDelete' = [pressed |-> a.id, confirmed |-> FALSE, sent |-> NoId]
    /\ UNCHANGED <<alertsData, filterVars, editingAlert, isEditModalOpen,
                   updateMutation, editOpenedOn, lastPut, alertsStale, offPage>>

\* Lines 192-194: onSuccess of deleteAlertMutation.
DeleteSucceeds(id) ==
    /\ id \in deletesPending
    /\ deletesPending' = deletesPending \ {id}
    /\ alertsStale' = TRUE
    /\ UNCHANGED <<alertsData, filterVars, editingAlert, isEditModalOpen,
                   updateMutation, editOpenedOn, lastPut, lastDelete, offPage>>

\* Variant: an onSettled that invalidates whatever the outcome.
DeleteFails_Invalidates(id) ==
    /\ id \in deletesPending
    /\ deletesPending' = deletesPending \ {id}
    /\ alertsStale' = TRUE
    /\ UNCHANGED <<alertsData, filterVars, editingAlert, isEditModalOpen,
                   updateMutation, editOpenedOn, lastPut, lastDelete, offPage>>

\* The DELETE fails: deleteAlertMutation has no onError.
DeleteFails(id) ==
    /\ id \in deletesPending
    /\ deletesPending' = deletesPending \ {id}
    /\ UNCHANGED <<alertsData, filterVars, editingAlert, isEditModalOpen,
                   updateMutation, editOpenedOn, lastPut, lastDelete, alertsStale,
                   offPage>>

\* ------------------------------------------- NewsFeed: search and filter
\* JavaScript truthiness of article.sentiment.
SentimentTruthy(s) == s # NullSentiment /\ s # ""

\* sentiment?.toLowerCase() on the values of Sentiments.
lowerSentiment(s) ==
    CASE s = "Positive" -> "positive"
      [] s = "Neutral" -> "neutral"
      [] s = "Negative" -> "negative"
      [] s = "Mixed" -> "mixed"
      [] OTHER -> s

\* Lines 288-291 of BACKEND_CORS_SETUP.md.
matchesNewsSearch(article, term) ==
    \/ stringIncludes(toLowerCase(article.title), toLowerCase(term))
    \/ stringIncludes(toLowerCase(article.text), toLowerCase(term))
    \/ stringIncludes(toLowerCase(article.source_name), toLowerCase(term))

\* Lines 293-295.
matchesSentiment(article, filter) ==
    \/ filter = "all"
    \/ SentimentTruthy(article.sentiment)
          /\ lowerSentiment(article.sentiment) = filter

\* Lines 286-298: the articles listed.
filteredNews ==
    SelectSeq(newsData, LAMBDA article :
        matchesNewsSearch(article, newsSearchTerm)
            /\ matchesSentiment(article, sentimentFilter))

\* Lines 312-320: the style of the badge, named by its key in `styles`.
getSentimentBadge(sentiment) ==
    IF lowerSentiment(sentiment) \in {"positive", "negative", "neutral"}
    THEN lowerSentiment(sentiment)
    ELSE "neutral"

\* Line 444: the text of the badge, article.sentiment || 'Neutral'.
BadgeText(sentiment) == IF SentimentTruthy(sentiment) THEN sentiment ELSE "Neutral"

\* Line 365: onChange of the search input.
SetNewsSearchTerm(v) ==
    /\ newsSearchTerm' = v
    /\ UNCHANGED <<newsData, sentimentFilter, modalVars, alertsStale, pageVars,
                   apiVars, corsVars>>

\* Line 375: onChange of the sentiment select.
SetSentimentFilter(v) ==
    /\ sentimentFilter' = v
    /\ UNCHANGED <<newsData, newsSearchTerm, modalVars, alertsStale, pageVars,
                   apiVars, corsVars>>

\* ------------------------------------------------------------------- Next
\* The two handlers of BACKEND_NEWS_ALERT_TRACKING.md, any number of them
\* in flight at once.
Next ==
    \/ \E r \in Req, src \in SourceUrls : PostAlerts(r, src)
    \/ \E r \in Req : CreateAlertResolves(r)
    \/ \E r \in Req : CreateAlertRejects(r)
    \/ \E r \in Req : UpdateResolves(r)
    \/ \E r \in Req : UpdateRejects(r)
    \/ \E token \in TokenParams, days \in DaysParams :
          GetNewsCache(token, days)

Spec == Init /\ [][Next]_vars

\* The same with the dashboard's PUT and DELETE requests on alerts.
NextCrud ==
    \/ Next
    \/ \E id \in 1..MaxReq, src \in PutUrls : PutAlert(id, src)
    \/ \E id \in 1..MaxReq : DeleteAlert(id)

SpecCrud == InitCrud /\ [][NextCrud]_vars

\* POST requests whose source_url is one of the spellings of UrlA, over a
\* cache that holds a row for each spelling.
InitExact ==
    InitWith(<<NewsRow(UrlA, FALSE), NewsRow(UrlASlash, FALSE),
               NewsRow(UrlAUpper, FALSE), NewsRow(UrlAQuery, FALSE)>>)

NextExact ==
    \/ \E r \in Req, src \in NearUrls : PostAlerts(r, src)
    \/ \E r \in Req : CreateAlertResolves(r)
    \/ \E r \in Req : CreateAlertRejects(r)
    \/ \E r \in Req : UpdateResolves(r)
    \/ \E r \in Req : UpdateRejects(r)

SpecExact == InitExact /\ [][NextExact]_vars

\* Listing requests over any cache of up to four articles.
InitListing ==
    \E rows \in UNION {[1..n -> {NewsRow(u, f) : u \in ListingUrls, f \in BOOLEAN}]
                          : n \in 0..Cardinality(ListingUrls)} :
        ArticleUrlIsKey(rows) /\ InitWith(rows)

NextListing ==
    \E token \in ListingTokens, days \in DaysParams : GetNewsCache(token, days)

SpecListing == InitListing /\ [][NextListing]_vars

\* The handlers with the migration statement run at any moment.
NextMigrate ==
    \/ Next
    \/ Migration

SpecMigrate == InitCrud /\ [][NextMigrate]_vars

\* The CORS origin function under any setting of the two environment variables.
InitCors ==
    \E a, s \in EnvValues :
        InitEnv(a, s) /\ InitFeed /\ InitNews(<<>>) /\ InitPage(<<>>) /\ InitApi(<<>>)

NextCors == \E o \in Origins : CorsOrigin(o)

SpecCors == InitCors /\ [][NextCors]_vars

\* The NewsFeed page: the create-alert modal and its mutation.
NextFeed ==
    \/ \E article \in FeedArticles : handleCreateAlertFromNews(article)
    \/ \E v \in TokenInputs : SetToken(v)
    \/ \E v \in TitleInputs : SetTitle(v)
    \/ \E v \in Severities : SetSeverity(v)
    \/ CloseModal
    \/ handleSaveAlert
    \/ MutationSucceeds
    \/ MutationFails
    \/ RefetchAlerts(<<>>)

SpecFeed == InitWith(<<>>) /\ [][NextFeed]_vars

\* The Alerts page: the edit modal, the update and delete mutations and the
\* refetch of the ['alerts'] query.
InitAlertsPage ==
    InitEnv(Undefined, Undefined) /\ InitFeed /\ InitNews(<<>>)
        /\ InitPage(<<AlertOne, AlertTwo>>) /\ InitApi(<<>>)

NextPage ==
    \/ \E k \in DOMAIN filteredAlerts : handleEditClick(filteredAlerts[k])
    \/ \E v \in EditTokens : SetEditToken(v)
    \/ \E v \in EditTitles : SetEditTitle(v)
    \/ \E v \in PutUrls : SetEditSourceUrl(v)
    \/ CloseEditModal
    \/ handleEditSubmit
    \/ UpdateSucceeds
    \/ UpdateFails
    \/ \E k \in DOMAIN filteredAlerts, answer \in Confirm :
          DeleteClick(filteredAlerts[k], answer)
    \/ \E id \in deletesPending : DeleteSucceeds(id)
    \/ \E id \in deletesPending : DeleteFails(id)
    \/ \E list \in AlertLists : RefetchAlerts(list)

SpecPage == InitAlertsPage /\ [][NextPage]_vars

\* Both pages: what opens, closes and saves the create modal of the news
\* feed and the edit modal of the alerts page.
NextModals ==
    \/ \E article \in FeedArticles : handleCreateAlertFromNews(article)
    \/ \E v \in TokenInputs : SetToken(v)
    \/ CloseModal
    \/ handleSaveAlert
    \/ MutationSucceeds
    \/ MutationFails
    \/ \E k \in DOMAIN filteredAlerts : handleEditClick(filteredAlerts[k])
    \/ \E v \in EditTitles : SetEditTitle(v)
    \/ CloseEditModal
    \/ handleEditSubmit
    \/ UpdateSucceeds
    \/ UpdateFails
    \/ \E list \in AlertLists : RefetchAlerts(list)

SpecModals == InitAlertsPage /\ [][NextModals]_vars

\* The search box and the severity select of the Alerts page, over any
\* fetched list of up to three alerts.
InitFilter ==
    \E list \in UNION {[1..n -> {AlertOne, AlertTwo, AlertThree}] : n \in 0..3} :
        InitEnv(Undefined, Undefined) /\ InitFeed /\ InitNews(<<>>)
            /\ InitPage(list) /\ InitApi(<<>>)

NextFilter ==
    \/ \E v \in SearchTerms : SetSearchTerm(v)
    \/ \E v \in SeverityFilters : SetSeverityFilter(v)

SpecFilter == InitFilter /\ [][NextFilter]_vars

\* The search box and the sentiment select of the news feed, over any
\* fetched list of up to two articles.
InitNewsFilter ==
    \E list \in UNION {[1..n -> NewsArticles] : n \in 0..2} :
        InitEnv(Undefined, Undefined) /\ InitFeed /\ InitNews(list)
            /\ InitPage(<<>>) /\ InitApi(<<>>)

NextNewsFilter ==
    \/ \E v \in NewsSearchTerms : SetNewsSearchTerm(v)
    \/ \E v \in SentimentFilters : SetSentimentFilter(v)

SpecNewsFilter == InitNewsFilter /\ [][NextNewsFilter]_vars

\* =================================================================== claims

\* C1 (as stated): once an alert has been created with a source_url, every
\* news row whose article_url equals it has alert_created true, and the
\* request wrote no row whose article_url differs from it.
C1_Original ==
    \A r \in Req :
        pc[r] = "done" /\ alert[r] # NoAlert =>
            /\ \A i \in DOMAIN news_cache :
                  news_cache[i].article_url = source_url[r]
                      => news_cache[i].alert_created
            /\ \A i \in rowsWritten[r] :
                  news_cache[i].article_url = source_url[r]

\* C1 (amended): an alert creation whose link UPDATE succeeded has set
\* alert_created on every row whose article_url equals its source_url; a
\* creation whose UPDATE failed, or was not issued, wrote no row; and in no
\* case did the request write a row with a different article_url (so a
\* source_url matching no row leaves every flag as it was).
C1_LinkSetsFlag ==
    \A r \in Req :
        pc[r] = "done" /\ alert[r] # NoAlert =>
            /\ linkOutcome[r] = "ok" =>
                  \A i \in DOMAIN news_cache :
                      news_cache[i].article_url = source_url[r]
                          => news_cache[i].alert_created
            /\ linkOutcome[r] # "ok" => rowsWritten[r] = {}
            /\ \A i \in rowsWritten[r] :
                  news_cache[i].article_url = source_url[r]

\* C1 witness: a completed creation flagged a row that started unflagged and
\* left its unflagged sibling as it was.
C1_Witness ==
    \E r \in Req, i, j \in DOMAIN news_cache :
        /\ pc[r] = "done" /\ linkOutcome[r] = "ok"
        /\ news_cache[i].article_url = source_url[r]
        /\ ~cache0[i].alert_created /\ news_cache[i].alert_created
        /\ rowsWritten[r] = {i}
        /\ news_cache[j].article_url # source_url[r]
        /\ ~news_cache[j].alert_created

\* C2: alert_created is monotonic: a row whose flag is true keeps it true in
\* every step of every handler (POST, GET, PUT, DELETE), and no row disappears.
C2_Monotonic ==
    [][\A i \in DOMAIN news_cache :
          news_cache[i].alert_created =>
              i \in DOMAIN news_cache' /\ news_cache'[i].alert_created]_vars

\* C2 witness: a flag set by a creation is still set after a second creation,
\* a PUT or DELETE and a listing.
C2_Witness ==
    \E r, q \in Req, i \in DOMAIN news_cache :
        /\ r # q /\ pc[r] = "done" /\ pc[q] = "done"
        /\ linkOutcome[r] = "ok" /\ alert[q] # NoAlert
        /\ alert[r].id < alert[q].id
        /\ news_cache[i].article_url = source_url[r]
        /\ ~cache0[i].alert_created /\ news_cache[i].alert_created
        /\ edits > 0
        /\ listingCurrent /\ lastListing # <<>>

\* C3: an alert row written by createAlert stays in the alerts table whatever
\* the link step does (only DELETE /api/alerts/:id removes it), and the
\* request is answered with success.
C3_AlertPersists ==
    \A r \in Req :
        alert[r] # NoAlert =>
            /\ alert[r].id \notin deletedIds =>
                  \E k \in DOMAIN alerts : alerts[k].id = alert[r].id
            /\ pc[r] = "done" => response[r].status = 200

\* C3 witness: the link UPDATE failed and the alert row is in the table.
C3_Witness ==
    \E r \in Req :
        /\ pc[r] = "done" /\ linkOutcome[r] = "failed"
        /\ \E k \in DOMAIN alerts : alerts[k].id = alert[r].id
        /\ errorLog > 0

\* C4: the response of a creation whose alert was written is the created
\* alert object, the same function of the alert whether the link UPDATE
\* succeeded, failed or was skipped.
C4_SameResponse ==
    \A r \in Req :
        pc[r] = "done" /\ alert[r] # NoAlert =>
            /\ response[r] = Json(alert[r])
            /\ alert[r].source_url = source_url[r]
            /\ alert[r].id > 0

\* C4 witness: one creation answered after a failed UPDATE and another after a
\* successful or skipped one.
C4_Witness ==
    \E r, q \in Req :
        /\ pc[r] = "done" /\ linkOutcome[r] = "failed" /\ response[r] = Json(alert[r])
        /\ pc[q] = "done" /\ linkOutcome[q] # "failed" /\ alert[q] # NoAlert

\* C5 (as stated): a creation whose primary write failed has been answered
\* with an HTTP error, and it left no alert row.
C5_PrimaryFailureSurfaced ==
    \A r \in Req :
        pc[r] = "done" /\ alert[r] = NoAlert =>
            /\ response[r].status = 500
            /\ Len(alerts) + Cardinality(deletedIds)
                  = Cardinality({q \in Req : alert[q] # NoAlert})

\* C6: a creation whose source_url is omitted or empty issues no statement
\* against news_cache and writes none of its rows.
C6_NoSourceUrlNoTouch ==
    \A r \in Req :
        pc[r] # "idle" /\ source_url[r] \in {Undefined, Empty} =>
            /\ newsQueries[r] = 0
            /\ rowsWritten[r] = {}
            /\ linkOutcome[r] = "none"
            /\ pc[r] # "dbQuery"

\* C6 witness: two completed creations, one without source_url and one with
\* the empty string, over a non-empty cache.
C6_Witness ==
    \E r, q \in Req :
        /\ pc[r] = "done" /\ alert[r] # NoAlert /\ source_url[r] = Undefined
        /\ pc[q] = "done" /\ alert[q] # NoAlert /\ source_url[q] = Empty
        /\ news_cache # <<>>

\* C7 (as stated): a listing served after a creation with a source_url has
\* completed shows alert_created true on the row with that article_url, and
\* every other row with its earlier value (unless another creation flagged it).
C7_Original ==
    \A r \in Req :
        listingCurrent /\ pc[r] = "done" /\ alert[r] # NoAlert /\ Truthy(source_url[r]) =>
            \A k \in DOMAIN lastListing :
                IF lastListing[k].article_url = source_url[r]
                THEN lastListing[k].alert_created
                ELSE \/ \E i \in DOMAIN cache0 :
                           /\ cache0[i].article_url = lastListing[k].article_url
                           /\ cache0[i].alert_created = lastListing[k].alert_created
                     \/ \E q \in Req :
                           /\ linkOutcome[q] = "ok"
                           /\ source_url[q] = lastListing[k].article_url

\* C7 (amended): a listing served after a creation whose link UPDATE succeeded
\* shows alert_created true on the row with that article_url; after any
\* creation, every other listed row has the value it had before the requests
\* unless another creation flagged it.
C7_ListingAfterLink ==
    \A r \in Req :
        listingCurrent /\ pc[r] = "done" /\ alert[r] # NoAlert /\ Truthy(source_url[r]) =>
            \A k \in DOMAIN lastListing :
                IF lastListing[k].article_url = source_url[r]
                THEN linkOutcome[r] = "ok" => lastListing[k].alert_created
                ELSE \/ \E i \in DOMAIN cache0 :
                           /\ cache0[i].article_url = lastListing[k].article_url
                           /\ cache0[i].alert_created = lastListing[k].alert_created
                     \/ \E q \in Req :
                           /\ linkOutcome[q] = "ok"
                           /\ source_url[q] = lastListing[k].article_url

\* C7 witness: a listing of two rows served after a successful link, showing
\* the matched row flagged and its sibling still unflagged.
C7_Witness ==
    \E r \in Req, k, m \in DOMAIN lastListing :
        /\ listingCurrent /\ pc[r] = "done" /\ linkOutcome[r] = "ok"
        /\ lastListing[k].article_url = source_url[r]
        /\ lastListing[k].alert_created
        /\ \E i \in DOMAIN cache0 :
              cache0[i].article_url = source_url[r] /\ ~cache0[i].alert_created
        /\ lastListing[m].article_url # source_url[r]
        /\ ~lastListing[m].alert_created

\* C8 (as stated): two creations that were in flight together with the same
\* source_url and whose alerts were written have each their own alert row and
\* a success response, and once both have finished the matching row is flagged.
C8_Original ==
    \A r, q \in Req :
        /\ r # q /\ {r, q} \in overlap
        /\ pc[r] = "done" /\ pc[q] = "done"
        /\ alert[r] # NoAlert /\ alert[q] # NoAlert
        /\ Truthy(source_url[r]) /\ source_url[q] = source_url[r]
        => /\ alert[r].id # alert[q].id
           /\ \A a \in {alert[r].id, alert[q].id} \ deletedIds :
                 \E k \in DOMAIN alerts : alerts[k].id = a
           /\ response[r] = Json(alert[r]) /\ response[q] = Json(alert[q])
           /\ \A i \in DOMAIN news_cache :
                 news_cache[i].article_url = source_url[r]
                     => news_cache[i].alert_created

\* C8 (amended): two creations that were in flight together with the same
\* source_url and whose alerts were written have each their own alert row and
\* a success response under every interleaving; once both have finished the
\* matching row is flagged provided at least one of the two link UPDATEs
\* succeeded.
C8_ConcurrentSameUrl ==
    \A r, q \in Req :
        /\ r # q /\ {r, q} \in overlap
        /\ pc[r] = "done" /\ pc[q] = "done"
        /\ alert[r] # NoAlert /\ alert[q] # NoAlert
        /\ Truthy(source_url[r]) /\ source_url[q] = source_url[r]
        => /\ alert[r].id # alert[q].id
           /\ \A a \in {alert[r].id, alert[q].id} \ deletedIds :
                 \E k \in DOMAIN alerts : alerts[k].id = a
           /\ response[r] = Json(alert[r]) /\ response[q] = Json(alert[q])
           /\ linkOutcome[r] = "ok" \/ linkOutcome[q] = "ok" =>
                 \A i \in DOMAIN news_cache :
                     news_cache[i].article_url = source_url[r]
                         => news_cache[i].alert_created

\* C8 witness: both overlapping creations ran their UPDATE on a row that
\* started unflagged, and both alert rows are in the table.
C8_Witness ==
    \E r, q \in Req, i \in DOMAIN news_cache :
        /\ r # q /\ {r, q} \in overlap
        /\ pc[r] = "done" /\ pc[q] = "done"
        /\ linkOutcome[r] = "ok" /\ linkOutcome[q] = "ok"
        /\ source_url[q] = source_url[r]
        /\ news_cache[i].article_url = source_url[r]
        /\ ~cache0[i].alert_created /\ news_cache[i].alert_created
        /\ Len(alerts) = 2

\* C9 (as stated): of two creations with the same source_url, the matching
\* row is flagged once the first has completed and stays so, and the second,
\* run after the first, changes no row of the cache.
C9_Original ==
    \A r, q \in Req :
        /\ r # q /\ pc[r] = "done" /\ alert[r] # NoAlert
        /\ Truthy(source_url[r])
        /\ pc[q] # "idle" /\ source_url[q] = source_url[r]
        => /\ \A i \in DOMAIN news_cache :
                 news_cache[i].article_url = source_url[r]
                     => news_cache[i].alert_created
           /\ {r, q} \notin overlap /\ pc[q] = "done" /\ alert[r].id < alert[q].id
                 => rowsChanged[q] = {}

\* C9 (amended): of two creations with the same source_url, once the link
\* UPDATE of the first has succeeded the matching row is flagged and stays so,
\* and the second, run after it, changes no row of the cache whether its own
\* UPDATE succeeds or fails.
C9_Idempotent ==
    \A r, q \in Req :
        /\ r # q /\ pc[r] = "done" /\ alert[r] # NoAlert
        /\ Truthy(source_url[r]) /\ linkOutcome[r] = "ok"
        /\ pc[q] # "idle" /\ source_url[q] = source_url[r]
        => /\ \A i \in DOMAIN news_cache :
                 news_cache[i].article_url = source_url[r]
                     => news_cache[i].alert_created
           /\ {r, q} \notin overlap /\ pc[q] = "done" /\ alert[r].id < alert[q].id
                 => rowsChanged[q] = {}

\* C9 witness: two creations one after the other with the same matching
\* source_url; the first flagged the row, the second wrote it again unchanged.
C9_Witness ==
    \E r, q \in Req :
        /\ r # q /\ {r, q} \notin overlap
        /\ pc[r] = "done" /\ pc[q] = "done"
        /\ linkOutcome[r] = "ok" /\ linkOutcome[q] = "ok"
        /\ source_url[q] = source_url[r]
        /\ alert[r].id < alert[q].id
        /\ rowsChanged[r] # {} /\ rowsWritten[q] # {} /\ rowsChanged[q] = {}

\* C10: the UPDATE of one creation writes at most one row of news_cache, and
\* a creation issues at most one UPDATE.
C10_AtMostOneRow ==
    \A r \in Req :
        /\ Cardinality(rowsWritten[r]) <= 1
        /\ newsQueries[r] <= 1

\* C10 witness: over a cache of two rows, one creation wrote exactly one row
\* and another wrote none.
C10_Witness ==
    /\ Len(news_cache) >= 2
    /\ \E r, q \in Req :
          /\ linkOutcome[r] = "ok" /\ Cardinality(rowsWritten[r]) = 1
          /\ pc[q] = "done" /\ alert[q] # NoAlert /\ rowsWritten[q] = {}

\* C11: the link step matches by exact string equality: a creation writes
\* only rows whose article_url is, character for character, its source_url,
\* so a row whose article_url differs from it by a trailing slash, by letter
\* case or by a query parameter is not flagged by it; over a cache that starts
\* unflagged, a flagged row has the exact source_url of a successful link.
C11_ExactMatch ==
    /\ \A r \in Req : \A i \in rowsWritten[r] :
          news_cache[i].article_url = source_url[r]
    /\ \A i \in DOMAIN news_cache :
          news_cache[i].alert_created /\ ~cache0[i].alert_created =>
              \E r \in Req :
                  linkOutcome[r] = "ok" /\ source_url[r] = news_cache[i].article_url

\* C11 witness: a creation with the trailing-slash spelling flagged that row,
\* and the rows of the three other spellings are still unflagged.
C11_Witness ==
    \E r \in Req :
        /\ pc[r] = "done" /\ linkOutcome[r] = "ok" /\ source_url[r] = UrlASlash
        /\ \A q \in Req : linkOutcome[q] = "ok" => source_url[q] = UrlASlash
        /\ \A i \in DOMAIN news_cache :
              news_cache[i].alert_created <=> news_cache[i].article_url = UrlASlash
        /\ {news_cache[i].article_url : i \in DOMAIN news_cache} = NearUrls

\* C12: a creation request makes at most two database writes, one after the
\* other: the alert write and then at most one UPDATE of news_cache.  The
\* UPDATE is issued only once the alert write has completed, and the response
\* is sent only when the handler has finished both.
C12_TwoSequentialWrites ==
    \A r \in Req :
        /\ newsQueries[r] <= 1
        /\ pc[r] \in {"idle", "createAlert"} =>
              alert[r] = NoAlert /\ newsQueries[r] = 0 /\ linkOutcome[r] = "none"
        /\ newsQueries[r] > 0 =>
              /\ alert[r] # NoAlert
              /\ alert[r].id \in {alerts[k].id : k \in DOMAIN alerts} \cup deletedIds
        /\ pc[r] = "dbQuery" => linkOutcome[r] = "none" /\ rowsWritten[r] = {}
        /\ response[r] # NoResponse => pc[r] = "done"
        /\ response[r].status = 200 =>
              /\ alert[r] # NoAlert
              /\ newsQueries[r] = 1 => linkOutcome[r] \in {"ok", "failed"}

\* C12 witness: one creation has made both writes and been answered while
\* another sits between its two writes, not yet answered.
C12_Witness ==
    \E r, q \in Req :
        /\ pc[r] = "done" /\ newsQueries[r] = 1 /\ linkOutcome[r] = "ok"
        /\ rowsChanged[r] # {} /\ response[r] = Json(alert[r])
        /\ pc[q] = "dbQuery" /\ alert[q] # NoAlert /\ response[q] = NoResponse

\* C13: a listing is a pass-through read: every step that delivers a listing
\* leaves news_cache and alerts as they were, and each listed row is a stored
\* row, with the alert_created value stored for its article_url at that moment.
C13_PassThrough ==
    [][listingCurrent' =>
          /\ news_cache' = news_cache
          /\ alerts' = alerts
          /\ \A k \in DOMAIN lastListing' :
                \E i \in DOMAIN news_cache :
                    /\ news_cache[i].article_url = lastListing'[k].article_url
                    /\ news_cache[i].alert_created = lastListing'[k].alert_created
                    /\ news_cache[i] = lastListing'[k]]_vars

\* C13 witness: a listing that shows one row flagged by a creation and one
\* unflagged row, served while an alert whose link UPDATE failed is stored.
C13_Witness ==
    /\ listingCurrent
    /\ \E k, m \in DOMAIN lastListing :
          /\ lastListing[k].alert_created /\ ~lastListing[m].alert_created
          /\ \E i \in DOMAIN cache0 :
                /\ cache0[i].article_url = lastListing[k].article_url
                /\ ~cache0[i].alert_created
    /\ \E r \in Req : linkOutcome[r] = "failed"
    /\ Len(alerts) = 2

\* C14: a listing request with a token (a non-empty `token` parameter) returns
\* exactly the stored rows whose tickers contain the token, one entry per row,
\* restricted to the rows dated within the last `days` days when days is
\* given; without a token (absent or empty) it returns every row of the date
\* window; and the rows come in descending date order.
C14_FilterAndOrder ==
    [][\A token \in ListingTokens, days \in DaysParams :
          GetNewsCache(token, days) =>
              /\ {lastListing'[k] : k \in DOMAIN lastListing'}
                    = {news_cache[i] : i \in
                          {j \in DOMAIN news_cache :
                              /\ token \in {"BTC", "ETH"} => token \in news_cache[j].tickers
                              /\ days # {} =>
                                    \E d \in days : news_cache[j].date >= Now - d}}
              /\ \A a, b \in DOMAIN lastListing' :
                    /\ a # b => lastListing'[a].article_url # lastListing'[b].article_url
                    /\ a < b => lastListing'[a].date >= lastListing'[b].date]_vars

\* C14 witness: over a cache of four articles, a listing of exactly the two
\* ETH articles of the last day, newest first; the cache also holds an ETH
\* article outside the window and a recent article without ETH.
C14_Witness ==
    /\ listingCurrent
    /\ Len(news_cache) = 4
    /\ Len(lastListing) = 2
    /\ lastListing[1].article_url = UrlC /\ lastListing[2].article_url = UrlD
    /\ lastListing[1].date > lastListing[2].date

\* C15: the migration statement leaves a row with alert_created true exactly
\* when it was true before or its article_url is the non-null source_url of
\* some alert; it changes nothing else (rows matching no alert keep their
\* value, no row is added or removed, the alerts are untouched).
C15_Migration ==
    [][Migration =>
          /\ DOMAIN news_cache' = DOMAIN news_cache
          /\ alerts' = alerts
          /\ \A i \in DOMAIN news_cache :
                /\ news_cache'[i].alert_created <=>
                      \/ news_cache[i].alert_created
                      \/ \E k \in DOMAIN alerts :
                            /\ alerts[k].source_url # Undefined
                            /\ alerts[k].source_url = news_cache[i].article_url
                /\ news_cache'[i].article_url = news_cache[i].article_url
                /\ (~\E k \in DOMAIN alerts :
                        alerts[k].source_url = news_cache[i].article_url)
                      => news_cache'[i] = news_cache[i]]_vars

\* C15 witness: a row is flagged although the only link UPDATE for its URL
\* failed (so the migration flagged it), next to a row that was flagged from
\* the start and matches no alert, with an alert without source_url stored.
C15_Witness ==
    /\ \E r \in Req : linkOutcome[r] = "failed"
    /\ \A r \in Req : linkOutcome[r] # "ok"
    /\ \E i, j \in DOMAIN news_cache :
          /\ ~cache0[i].alert_created /\ news_cache[i].alert_created
          /\ \E k \in DOMAIN alerts : alerts[k].source_url = news_cache[i].article_url
          /\ cache0[j].alert_created /\ news_cache[j].alert_created
          /\ ~\E k \in DOMAIN alerts : alerts[k].source_url = news_cache[j].article_url
    /\ \E k \in DOMAIN alerts : alerts[k].source_url = Undefined

\* C16: the CORS origin check allows a request exactly when it carries no
\* origin (the header is absent or empty), or its origin is one of the allowed
\* origins (the two localhost origins and the configured production and
\* staging URLs, unset ones left out), or '*' is among them; any other origin
\* is refused with the error 'Not allowed by CORS'.
C16_CorsOrigin ==
    callback # NotCalled =>
        LET list == {LocalDev, LocalAlt, processEnv.ADMIN_DASHBOARD_URL,
                     processEnv.STAGING_ADMIN_URL} \ {Undefined}
            accepted == \/ origin \in {Undefined, Empty}
                        \/ origin \in list
                        \/ "*" \in list
        IN  /\ callback.allow <=> accepted
            /\ accepted => callback = Allowed /\ ~corsWarned
            /\ ~accepted => callback.err = "Not allowed by CORS" /\ corsWarned

\* C16 witness: with only the production URL configured, the staging origin
\* was refused.
C16_Witness ==
    /\ processEnv.ADMIN_DASHBOARD_URL = ProdUrl
    /\ processEnv.STAGING_ADMIN_URL = Undefined
    /\ origin = StagingUrl
    /\ callback = NotAllowed

\* C17: the alert posted from the news feed's create-alert modal carries as
\* source_url the news_url of the article the modal was opened from: the draft
\* is created with it, every edit of the modal keeps it, and the body handed to
\* the mutation and sent by api.post is that draft.
C17_SourceUrlIsArticleUrl ==
    /\ ModalShown =>
          /\ newAlert.source_url = openedFrom
          /\ openedFrom \in {a.news_url : a \in FeedArticles}
    /\ posted # NoPost =>
          /\ posted.body.source_url = posted.article
          /\ posted.article \in {a.news_url : a \in FeedArticles}
    /\ mutation.status # "idle" => mutation.variables = posted.body

\* C17 witness: a draft opened from the article without tickers was posted
\* after its token, title and severity were edited, and the POST succeeded.
C17_Witness ==
    /\ posted.article = UrlB /\ posted.body.source_url = UrlB
    /\ posted.body.token = "ETH"
    /\ posted.body.title = "edited"
    /\ posted.body.severity = "critical"
    /\ mutation.status = "success"

\* C18: the two writes of a creation are not one transaction.  While a
\* creation waits for its UPDATE, its alert row is already stored and it has
\* written no news row; a creation whose UPDATE failed keeps its alert row,
\* has issued that one UPDATE only and never issues another, so the row with
\* its source_url stays unflagged unless it started flagged or another
\* creation's UPDATE flagged it.
C18_NotAtomic ==
    \A r \in Req :
        /\ pc[r] = "dbQuery" =>
              /\ \E k \in DOMAIN alerts : alerts[k] = alert[r]
              /\ rowsWritten[r] = {}
        /\ linkOutcome[r] = "failed" =>
              /\ pc[r] = "done" /\ newsQueries[r] = 1 /\ rowsWritten[r] = {}
              /\ \E k \in DOMAIN alerts : alerts[k] = alert[r]
              /\ \A i \in DOMAIN news_cache :
                    news_cache[i].article_url = source_url[r]
                    /\ news_cache[i].alert_created =>
                        \/ cache0[i].alert_created
                        \/ \E q \in Req \ {r} :
                              linkOutcome[q] = "ok" /\ source_url[q] = source_url[r]
        /\ newsQueries[r] <= 1

\* C18 witness: one alert with a source_url is stored after its link UPDATE
\* failed, another is stored with its UPDATE still pending, every request has
\* been made, and the news row with that article_url is still unflagged.
C18_Witness ==
    \E r, q \in Req, i \in DOMAIN news_cache :
        /\ pc[r] = "done" /\ linkOutcome[r] = "failed"
        /\ pc[q] = "dbQuery" /\ source_url[q] = source_url[r]
        /\ \E k, m \in DOMAIN alerts : alerts[k] = alert[r] /\ alerts[m] = alert[q]
        /\ news_cache[i].article_url = source_url[r]
        /\ ~news_cache[i].alert_created
        /\ \A p \in Req : pc[p] # "idle"

\* C19: starting from a cache with every flag false (and with no migration
\* run), a row has alert_created true only if some creation request whose
\* source_url is the row's article_url had its alert written before.
C19_FlagImpliesAlert ==
    (\A i \in DOMAIN cache0 : ~cache0[i].alert_created) =>
        \A i \in DOMAIN news_cache :
            news_cache[i].alert_created =>
                \E r \in Req :
                    /\ source_url[r] = news_cache[i].article_url
                    /\ alert[r] # NoAlert
                    /\ alert[r].id < nextId
                    /\ \E k \in DOMAIN alerts : alerts[k] = alert[r]

\* C19 witness: a cache of two rows that started unflagged, one of them now
\* flagged by a creation, after another creation with the same source_url
\* whose alert write failed.
C19_Witness ==
    /\ Len(cache0) = 2
    /\ \A i \in DOMAIN cache0 : ~cache0[i].alert_created
    /\ \E r, q \in Req, i, j \in DOMAIN news_cache :
          /\ news_cache[i].alert_created /\ ~news_cache[j].alert_created
          /\ linkOutcome[r] = "ok" /\ source_url[r] = news_cache[i].article_url
          /\ pc[q] = "done" /\ alert[q] = NoAlert /\ source_url[q] = source_url[r]

\* C20: a creation whose alert write failed never issues the link UPDATE and
\* writes no news row, whatever its source_url; when no creation's alert write
\* has succeeded the cache is exactly what it was before the requests.
C20_PrimaryFailureNoLink ==
    /\ \A r \in Req :
          pc[r] = "done" /\ alert[r] = NoAlert =>
              /\ newsQueries[r] = 0
              /\ linkOutcome[r] = "none"
              /\ rowsWritten[r] = {} /\ rowsChanged[r] = {}
    /\ (\A r \in Req : alert[r] = NoAlert) => news_cache = cache0

\* C20 witness: both creations named the URL of a stored, unflagged row and
\* both alert writes failed; the row is still unflagged.
C20_Witness ==
    /\ \A r \in Req :
          pc[r] = "done" /\ alert[r] = NoAlert /\ source_url[r] = UrlA
    /\ \E i \in DOMAIN news_cache :
          news_cache[i].article_url = UrlA /\ ~news_cache[i].alert_created
    /\ alerts = <<>>

\* C21: a PUT or DELETE on an alert (a change of its source_url included)
\* leaves every news row as it was, and the only step that changes a news row
\* is the link UPDATE of an alert creation.
C21_EditsLeaveFlags ==
    [][/\ edits' # edits => news_cache' = news_cache
       /\ news_cache' # news_cache =>
             \E r \in Req :
                 /\ pc[r] = "dbQuery" /\ pc'[r] = "done"
                 /\ alert[r] # NoAlert /\ linkOutcome'[r] = "ok"]_vars

\* C21 witness: an alert created from article A, which flagged A's row, was
\* then pointed at article B by a PUT; A's row is still flagged.
C21_Witness ==
    \E r \in Req, k \in DOMAIN alerts, i \in DOMAIN news_cache :
        /\ edits > 0
        /\ linkOutcome[r] = "ok" /\ source_url[r] = UrlA
        /\ alerts[k].id = alert[r].id /\ alerts[k].source_url = UrlB
        /\ news_cache[i].article_url = UrlA
        /\ ~cache0[i].alert_created /\ news_cache[i].alert_created

\* C22: in the news feed, the step in which a create-alert request succeeds
\* closes the modal, clears the draft and invalidates the 'alerts' query; the
\* step in which it fails leaves the modal flag and the draft as they were
\* and does not invalidate the query.
C22_SuccessAndFailure ==
    [][/\ mutation.status = "pending" /\ mutation'.status = "success" =>
             /\ ~isCreateAlertModalOpen'
             /\ newAlert' = Null
             /\ alertsStale'
       /\ mutation.status = "pending" /\ mutation'.status = "error" =>
             /\ isCreateAlertModalOpen' = isCreateAlertModalOpen
             /\ newAlert' = newAlert
             /\ alertsStale' = alertsStale]_vars

\* C22 witness: a create-alert request has failed; the modal is still open on
\* the submitted draft and the 'alerts' query is not invalidated.
C22_Witness ==
    /\ mutation.status = "error"
    /\ ModalShown
    /\ newAlert = mutation.variables
    /\ ~alertsStale

\* C23 (as stated): when a create-alert request succeeds while the modal shows
\* a draft opened from another article than the one submitted, that draft and
\* its modal stay as they are.
C23_OnlySubmittedDraftDiscarded ==
    [][/\ mutation.status = "pending" /\ mutation'.status = "success"
       /\ ModalShown /\ openedFrom # posted.article
       => /\ isCreateAlertModalOpen'
          /\ newAlert' = newAlert]_vars

\* C24: at most one create-alert request of the news feed awaits its response
\* at any time, and one does exactly while the mutation is pending.
C24_OneInFlight ==
    /\ inFlight \in {0, 1}
    /\ inFlight = 1 <=> mutation.status = "pending"

\* C24 witness: while a request is pending, the operator has cancelled and
\* opened a draft from another article that has a token and a severity.
C24_Witness ==
    /\ mutation.status = "pending" /\ inFlight = 1
    /\ ModalShown
    /\ openedFrom # posted.article
    /\ Truthy(newAlert.token) /\ Truthy(newAlert.severity)

\* C25: a step of the news feed issues a create-alert request only from a
\* shown draft whose token and severity are both non-empty, and sends that
\* draft; a submission of a draft with an empty token sends nothing and leaves
\* the modal and the draft unchanged.
C25_SubmitNeedsTokenAndSeverity ==
    [][/\ inFlight' > inFlight =>
             /\ ModalShown
             /\ Truthy(newAlert.token) /\ Truthy(newAlert.severity)
             /\ posted'.body = newAlert /\ mutation'.variables = newAlert
       /\ ModalShown /\ ~Truthy(newAlert.token) =>
             /\ posted' = posted /\ inFlight' <= inFlight
             /\ mutation'.variables = mutation.variables
             /\ handleSaveAlert =>
                   newAlert' = newAlert /\ isCreateAlertModalOpen']_vars

\* C25 witness: after an earlier request failed, the modal shows a draft built
\* from the article without tickers, its token empty, and nothing was sent
\* for it.
C25_Witness ==
    /\ ModalShown
    /\ openedFrom = UrlB /\ newAlert.token = ""
    /\ mutation.status = "error"
    /\ posted.article = UrlA

\* C26: on the news feed the create modal's open flag is true exactly when a
\* draft alert is present, and on the alerts page the edit modal's open flag
\* is true exactly when an alert is being edited.
C26_FlagIffDraft ==
    /\ isCreateAlertModalOpen <=> newAlert # Null
    /\ isEditModalOpen <=> editingAlert # NullAlert

\* Both modals are open, each on an edited draft, after an earlier successful
\* save has closed each of them.
C26_Witness ==
    /\ isCreateAlertModalOpen /\ newAlert # Null /\ newAlert.token = "ETH"
    /\ isEditModalOpen /\ editingAlert # NullAlert
    /\ editingAlert.title \in EditTitles
    /\ mutation.status = "success"
    /\ updateMutation.status = "success"

C28_DeleteAfterConfirm ==
    [][/\ ~(deletesPending' \subseteq deletesPending)
            => /\ lastDelete'.confirmed
               /\ lastDelete'.sent = lastDelete'.pressed
               /\ deletesPending' = deletesPending \cup {lastDelete'.pressed}
               /\ \E k \in DOMAIN filteredAlerts :
                     filteredAlerts[k].id = lastDelete'.pressed
       /\ lastDelete'.sent # NoId => lastDelete'.confirmed
       /\ (\A k \in DOMAIN filteredAlerts :
              DeleteClick(filteredAlerts[k], FALSE)
                 => /\ lastDelete'.sent = NoId
                    /\ UNCHANGED <<deletesPending, alertsStale, alertsData,
                                   updateMutation, lastPut>>)
       /\ (\A id \in deletesPending :
              /\ DeleteFails(id) => alertsStale' = alertsStale
              /\ DeleteSucceeds(id) => alertsStale')
      ]_vars

\* The operator declined the prompt of row 2 while the confirmed DELETE of
\* row 1 is pending and nothing has been invalidated.
C28_Witness ==
    /\ lastDelete = [pressed |-> "2", confirmed |-> FALSE, sent |-> NoId]
    /\ deletesPending = {"1"}
    /\ ~alertsStale
    /\ alertsData = <<AlertOne, AlertTwo>>

\* C29: on the alerts page an alert is listed exactly when the search term
\* occurs, letter case ignored, in its title, token or description and the
\* severity filter is 'all' or its severity; the listed alerts are the
\* fetched ones that qualify, in the fetched order; with an empty search term
\* and filter 'all' every fetched alert is listed.
C29_Listed ==
    LET sameLetter(c, d) ==
            \/ c = d
            \/ {c, d} \in {{"a", "A"}, {"b", "B"}, {"c", "C"}}
        occursIn(t, s) ==
            \E off \in 0..(Len(s) - Len(t)) :
                \A k \in 1..Len(t) : sameLetter(s[off + k], t[k])
        qualifies(a) ==
            /\ \/ occursIn(searchTerm, a.title)
               \/ occursIn(searchTerm, a.token)
               \/ occursIn(searchTerm, a.description)
            /\ severityFilter = "all" \/ severityFilter = a.severity
        kept == {k \in DOMAIN alertsData : qualifies(alertsData[k])}
        rank(k) == Cardinality({j \in kept : j <= k})
    IN /\ Len(filteredAlerts) = Cardinality(kept)
       /\ \A k \in kept : filteredAlerts[rank(k)] = alertsData[k]
       /\ (searchTerm = <<>> /\ severityFilter = "all") => filteredAlerts = alertsData

\* A term in mixed case occurs in the token of the second fetched alert and in
\* the title of the first, which the severity filter excludes.
C29_Witness ==
    /\ alertsData = <<AlertTwo, AlertOne, AlertThree>>
    /\ searchTerm = <<"A", "b">>
    /\ severityFilter = "critical"
    /\ filteredAlerts = <<AlertOne>>

\* C30 (as stated): the sentiment filter agrees with the badge.  Under the
\* filter 'neutral' every fetched article that matches the search and whose
\* badge reads 'Neutral' in the neutral style is listed, articles without a
\* sentiment included; and under a filter other than 'all' every listed
\* article wears the badge style of that filter value.
C30_FilterAgreesWithBadge ==
    LET Listed(a) == \E j \in DOMAIN filteredNews : filteredNews[j] = a
    IN \A k \in DOMAIN newsData :
          LET a == newsData[k]
          IN /\ (/\ sentimentFilter = "neutral"
                 /\ matchesNewsSearch(a, newsSearchTerm)
                 /\ BadgeText(a.sentiment) = "Neutral"
                 /\ getSentimentBadge(a.sentiment) = "neutral")
                    => Listed(a)
             /\ (sentimentFilter # "all" /\ Listed(a))
                    => getSentimentBadge(a.sentiment) = sentimentFilter

====
